---- MODULE Spec2Model ----
(***************************************************************************)
(* Model of ser-drephs/semver: the conventional-commit classifier, the    *)
(* prerelease policy, the version calculator (src/src/semantic.rs) and    *)
(* the history walk (src/src/history.rs).                                  *)
(*                                                                         *)
(* Text is a sequence of one-character strings.  Numbers that come from   *)
(* or go to version text (u64 components, the i32 prerelease counter) are *)
(* canonical decimal digit sequences, so that the 64-bit and 32-bit       *)
(* limits are the real ones.                                               *)
(***************************************************************************)
EXTENDS Integers, Sequences, FiniteSets, TLC

VARIABLES pc, fuel, semantic, last, env, revwalk, visited, result

vars == <<pc, fuel, semantic, last, env, revwalk, visited, result>>

---------------------------------------------------------------------------
(* Bounds of the model. *)

\* longest free tail appended to a commit-message prefix
MaxTail == 3
\* longest generated branch name
MaxBranch == 3
\* longest generated prerelease label
MaxLabel == 3
\* calls of calculate_version in one run of the calculator specification
MaxCalc == 2
\* builder calls in one direct use of the builder API
MaxOps == 3
\* commits in a history
MaxCommits == 3

---------------------------------------------------------------------------
(* Text helpers. *)

Digits == {"0", "1", "2", "3", "4", "5", "6", "7", "8", "9"}

DigitSeq == <<"0", "1", "2", "3", "4", "5", "6", "7", "8", "9">>

Letters ==
  {"a", "b", "c", "d", "e", "f", "g", "h", "i", "j", "k", "l", "m",
   "n", "o", "p", "q", "r", "s", "t", "u", "v", "w", "x", "y", "z",
   "A", "B", "C", "D", "E", "F", "G", "H", "I", "J", "K", "L", "M",
   "N", "O", "P", "Q", "R", "S", "T", "U", "V", "W", "X", "Y", "Z"}

\* all sequences over alphabet of length at most n
SeqsUpTo(alphabet, n) == UNION {[1..k -> alphabet] : k \in 0..n}

\* str::contains(needle)
Contains(text, needle) ==
  \E i \in 0..(Len(text) - Len(needle)) :
    \A k \in 1..Len(needle) : text[i + k] = needle[k]

StartsWith(text, prefix) ==
  /\ Len(text) >= Len(prefix)
  /\ \A k \in 1..Len(prefix) : text[k] = prefix[k]

\* index of the first element of text satisfying the class, 0 when none
FirstIn(text, class) ==
  IF \E i \in 1..Len(text) : text[i] \in class
  THEN CHOOSE i \in 1..Len(text) :
         text[i] \in class /\ \A k \in 1..(i - 1) : text[k] \notin class
  ELSE 0

\* length of the longest run of class characters of text starting at index from
RunLen(text, from, class) ==
  IF \E j \in from..Len(text) : text[j] \notin class
  THEN (CHOOSE j \in from..Len(text) :
          text[j] \notin class /\ \A k \in from..(j - 1) : text[k] \in class) - from
  ELSE Len(text) - from + 1

---------------------------------------------------------------------------
(* Semantic and its builder: src/src/semantic.rs *)

Zero == <<"0">>

VersionNew(major, minor, patch) ==
  [major |-> major, minor |-> minor, patch |-> patch, pre |-> <<>>, build |-> <<>>]

\* impl Default for Semantic
SemanticDefault ==
  [major |-> FALSE, minor |-> FALSE, patch |-> FALSE, prerelase |-> FALSE,
   version |-> VersionNew(Zero, Zero, Zero)]

\* message.contains("!:")
semantic_major(message) == Contains(message, <<"!", ":">>)

\* the regex ^<word>.*: on a text: `^` is the start of the text, `.` is any
\* character but a line feed
AnchoredWordThenColon(message, word) ==
  /\ StartsWith(message, word)
  /\ \E j \in (Len(word) + 1)..Len(message) :
       /\ message[j] = ":"
       /\ \A k \in (Len(word) + 1)..(j - 1) : message[k] # "\n"

\* the same without the anchor: feat, then a colon on the same line, anywhere
semantic_minor_unanchored(message) ==
  \E i \in 0..Len(message) :
    AnchoredWordThenColon(SubSeq(message, i + 1, Len(message)), <<"f", "e", "a", "t">>)

\* Regex ^feat.*:
semantic_minor(message) == AnchoredWordThenColon(message, <<"f", "e", "a", "t">>)

\* Regex ^fix.*:
semantic_patch(message) == AnchoredWordThenColon(message, <<"f", "i", "x">>)

\* the same keeping only the category of the latest matching message
message_contains_semantic_information_exclusive(s, message) ==
  IF semantic_major(message)
  THEN [s EXCEPT !.major = TRUE, !.minor = FALSE, !.patch = FALSE]
  ELSE IF semantic_minor(message)
  THEN [s EXCEPT !.major = FALSE, !.minor = TRUE, !.patch = FALSE]
  ELSE IF semantic_patch(message)
  THEN [s EXCEPT !.major = FALSE, !.minor = FALSE, !.patch = TRUE]
  ELSE s

\* the same with the minor test placed before the major test
message_contains_semantic_information_minor_first(s, message) ==
  IF semantic_minor(message) THEN [s EXCEPT !.minor = TRUE]
  ELSE IF semantic_major(message) THEN [s EXCEPT !.major = TRUE]
  ELSE IF semantic_patch(message) THEN [s EXCEPT !.patch = TRUE]
  ELSE s

message_contains_semantic_information(s, message) ==
  IF semantic_major(message) THEN [s EXCEPT !.major = TRUE]
  ELSE IF semantic_minor(message) THEN [s EXCEPT !.minor = TRUE]
  ELSE IF semantic_patch(message) THEN [s EXCEPT !.patch = TRUE]
  ELSE s

\* the same assigning the outcome of the test instead of only setting it
is_prerelease_assign(s, branchname) ==
  LET main_release_branch ==
        \/ Contains(branchname, <<"m", "a", "i", "n">>)
        \/ Contains(branchname, <<"m", "a", "s", "t", "e", "r">>)
  IN  [s EXCEPT !.prerelase = ~main_release_branch \/ branchname = <<>>]

\* the same comparing the whole name instead of searching it
is_prerelease_exact(s, branchname) ==
  LET main_release_branch ==
        \/ branchname = <<"m", "a", "i", "n">>
        \/ branchname = <<"m", "a", "s", "t", "e", "r">>
  IN  IF ~main_release_branch \/ branchname = <<>>
      THEN [s EXCEPT !.prerelase = TRUE]
      ELSE s

is_prerelease(s, branchname) ==
  LET main_release_branch ==
        \/ Contains(branchname, <<"m", "a", "i", "n">>)
        \/ Contains(branchname, <<"m", "a", "s", "t", "e", "r">>)
  IN  IF ~main_release_branch \/ branchname = <<>>
      THEN [s EXCEPT !.prerelase = TRUE]
      ELSE s

has_major_release(s) == s.major

---------------------------------------------------------------------------
(* The record of the latest builder call, kept for stating properties. *)

NoCall == [op |-> "none", arg |-> <<>>, pre |-> SemanticDefault, outcome |-> "ok"]

Call(op, arg, outcome) == [op |-> op, arg |-> arg, pre |-> semantic, outcome |-> outcome]

NoEnv == [kind |-> "none"]

RunIdle == /\ env = NoEnv /\ revwalk = <<>> /\ visited = <<>> /\ result = "none"

---------------------------------------------------------------------------
(* Builder calls as actions. *)

MessageContainsSemanticInformation(message) ==
  /\ pc = "api"
  /\ fuel > 0
  /\ semantic' = message_contains_semantic_information(semantic, message)
  /\ last' = Call("message_contains_semantic_information", message, "ok")
  /\ fuel' = fuel - 1
  /\ UNCHANGED <<pc, env, revwalk, visited, result>>

IsPrerelease(branchname) ==
  /\ pc = "api"
  /\ fuel > 0
  /\ semantic' = is_prerelease(semantic, branchname)
  /\ last' = Call("is_prerelease", branchname, "ok")
  /\ fuel' = fuel - 1
  /\ UNCHANGED <<pc, env, revwalk, visited, result>>

---------------------------------------------------------------------------
(* The classifier on every message of a bounded set, on a fresh builder. *)

Word_feat == <<"f", "e", "a", "t">>
Word_fix == <<"f", "i", "x">>

MessagePrefixes ==
  { <<>>, Word_feat, Word_fix, <<"f", "e", "a">>, <<"F", "e", "a", "t">>,
    <<" ", "f", "i", "x">>, <<"\n", "f", "e", "a", "t">>,
    <<"c", "h", "o", "r", "e">>,
    <<"c", "h", "o", "r", "e", "(", "f", "e", "a", "t", ")">>,
    <<"r", "e", "f", "a", "c", "t", "o", "r">>,
    <<"f", "e", "a", "t", "(", "s", ")">>,
    <<"M", "e", "r", "g", "e", " ", "f", "e", "a", "t">>,
    <<"M", "e", "r", "g", "e", " ", "f", "i", "x">> }

TailChars == {"!", ":", "\n", " ", "x"}

ClassifyMessages ==
  {p \o t : p \in MessagePrefixes, t \in SeqsUpTo(TailChars, MaxTail)}

InitClassify ==
  /\ pc = "api"
  /\ fuel = 1
  /\ semantic = SemanticDefault
  /\ last = NoCall
  /\ RunIdle

NextClassify ==
  /\ fuel > 0
  /\ \E message \in ClassifyMessages : MessageContainsSemanticInformation(message)

SpecClassify == InitClassify /\ [][NextClassify]_vars

---------------------------------------------------------------------------
(* The prerelease policy on every branch name of a bounded set. *)

BranchPrefixes ==
  { <<>>, <<"m", "a", "i", "n">>, <<"m", "a", "s", "t", "e", "r">>,
    <<"m", "a", "i">>, <<"m", "a", "s", "t", "e">>,
    <<"d", "e", "v", "e", "l", "o", "p">>,
    <<"r", "e", "f", "s", "/", "h", "e", "a", "d", "s", "/">>,
    <<"r", "e", "f", "s", "/", "h", "e", "a", "d", "s", "/", "m", "a", "i", "n">>,
    <<"x", "/", "m", "a", "i">>, <<"M", "a", "i", "n">> }

BranchChars == {"m", "a", "i", "n", "/"}

BranchNames ==
  {p \o t : p \in BranchPrefixes, t \in SeqsUpTo(BranchChars, MaxBranch)}

InitPrerelease == InitClassify

NextPrerelease ==
  /\ fuel > 0
  /\ \E branchname \in BranchNames : IsPrerelease(branchname)

SpecPrerelease == InitPrerelease /\ [][NextPrerelease]_vars

---------------------------------------------------------------------------
(* Decimal numbers as digit sequences. *)

DigitVal(c) == CHOOSE i \in 0..9 : DigitSeq[i + 1] = c

RECURSIVE DecInc(_)
\* the successor of a natural number written in decimal
DecInc(d) ==
  IF d = <<>> THEN <<"1">>
  ELSE LET n == Len(d)
       IN  IF d[n] = "9"
           THEN DecInc(SubSeq(d, 1, n - 1)) \o <<"0">>
           ELSE SubSeq(d, 1, n - 1) \o <<DigitSeq[DigitVal(d[n]) + 2]>>

\* a <= b for decimals without leading zeros
DecLeq(a, b) ==
  \/ Len(a) < Len(b)
  \/ /\ Len(a) = Len(b)
     /\ \/ a = b
        \/ \E i \in 1..Len(a) :
             /\ DigitVal(a[i]) < DigitVal(b[i])
             /\ \A k \in 1..(i - 1) : a[k] = b[k]

\* a digit sequence without its leading zeros ("000" is "0")
StripZeros(d) ==
  LET z == RunLen(d, 1, {"0"})
  IN  IF z = Len(d) THEN Zero ELSE SubSeq(d, z + 1, Len(d))

RECURSIVE Dec(_)
\* the decimal text of a natural number
Dec(n) == IF n < 10 THEN <<DigitSeq[n + 1]>> ELSE Dec(n \div 10) \o <<DigitSeq[(n % 10) + 1]>>

\* u64::MAX = 18446744073709551615
U64_MAX ==
  <<"1", "8", "4", "4", "6", "7", "4", "4", "0", "7",
    "3", "7", "0", "9", "5", "5", "1", "6", "1", "5">>

\* i32::MAX = 2147483647
I32_MAX == <<"2", "1", "4", "7", "4", "8", "3", "6", "4", "7">>

\* i32::MIN as format! writes it
I32_MIN_TEXT == <<"-", "2", "1", "4", "7", "4", "8", "3", "6", "4", "8">>

---------------------------------------------------------------------------
(* semver::Version::parse and semver::Prerelease::new, as the calls in    *)
(* semantic.rs use them (semver 1.x grammar).                              *)

IdentChars == Letters \cup Digits \cup {"-"}

RECURSIVE SplitDots(_)
\* the dot-separated segments of a text
SplitDots(text) ==
  LET d == FirstIn(text, {"."})
  IN  IF d = 0 THEN <<text>>
      ELSE <<SubSeq(text, 1, d - 1)>> \o SplitDots(SubSeq(text, d + 1, Len(text)))

IsNumeric(seg) == seg # <<>> /\ \A k \in 1..Len(seg) : seg[k] \in Digits

\* a non-empty run of identifier characters and dots is a valid identifier list
ValidIdentifiers(text, leading_zero_rule) ==
  LET segs == SplitDots(text)
  IN  \A i \in 1..Len(segs) :
        /\ segs[i] # <<>>
        /\ \A k \in 1..Len(segs[i]) : segs[i][k] \in IdentChars
        /\ (leading_zero_rule /\ IsNumeric(segs[i]) /\ Len(segs[i]) > 1)
             => segs[i][1] # "0"

\* Prerelease::new(text).is_ok()
PrereleaseNewOk(text) == text = <<>> \/ ValidIdentifiers(text, TRUE)

\* numeric_identifier at index from: [ok, val, next]
NumericIdentifier(text, from) ==
  LET n == IF from > Len(text) THEN 0 ELSE RunLen(text, from, Digits)
      val == SubSeq(text, from, from + n - 1)
  IN  IF n = 0 THEN [ok |-> FALSE, val |-> Zero, next |-> from]
      ELSE IF n > 1 /\ text[from] = "0" THEN [ok |-> FALSE, val |-> Zero, next |-> from]
      ELSE IF ~DecLeq(val, U64_MAX) THEN [ok |-> FALSE, val |-> Zero, next |-> from]
      ELSE [ok |-> TRUE, val |-> val, next |-> from + n]

\* the optional -PRERELEASE and +BUILD after MAJOR.MINOR.PATCH, from index p
ParseSuffix(text, p, major, minor, patch) ==
  LET Bad == [ok |-> FALSE, version |-> VersionNew(Zero, Zero, Zero)]
      hasPre == p <= Len(text) /\ text[p] = "-"
      preLen == IF hasPre /\ p + 1 <= Len(text)
                THEN RunLen(text, p + 1, IdentChars \cup {"."}) ELSE 0
      pre == SubSeq(text, p + 1, p + preLen)
      q == IF hasPre THEN p + 1 + preLen ELSE p
      hasBuild == q <= Len(text) /\ text[q] = "+"
      buildLen == IF hasBuild /\ q + 1 <= Len(text)
                  THEN RunLen(text, q + 1, IdentChars \cup {"."}) ELSE 0
      build == SubSeq(text, q + 1, q + buildLen)
      r == IF hasBuild THEN q + 1 + buildLen ELSE q
  IN  IF hasPre /\ (pre = <<>> \/ ~ValidIdentifiers(pre, TRUE)) THEN Bad
      ELSE IF hasBuild /\ (build = <<>> \/ ~ValidIdentifiers(build, FALSE)) THEN Bad
      ELSE IF r <= Len(text) THEN Bad
      ELSE [ok |-> TRUE,
            version |-> [major |-> major, minor |-> minor, patch |-> patch,
                         pre |-> IF hasPre THEN pre ELSE <<>>,
                         build |-> IF hasBuild THEN build ELSE <<>>]]

\* the same accepting a leading "v", as tag names carry it
VersionParse_lenient(text) ==
  LET t == IF text # <<>> /\ text[1] = "v" THEN Tail(text) ELSE text
      ma == NumericIdentifier(t, 1)
      dot1 == ma.ok /\ ma.next <= Len(t) /\ t[ma.next] = "."
      mi == IF dot1 THEN NumericIdentifier(t, ma.next + 1) ELSE [ok |-> FALSE]
      dot2 == mi.ok /\ mi.next <= Len(t) /\ t[mi.next] = "."
      pa == IF dot2 THEN NumericIdentifier(t, mi.next + 1) ELSE [ok |-> FALSE]
  IN  IF pa.ok THEN ParseSuffix(t, pa.next, ma.val, mi.val, pa.val)
      ELSE [ok |-> FALSE, version |-> VersionNew(Zero, Zero, Zero)]

\* Version::parse(text): [ok, version]
VersionParse(text) ==
  LET Bad == [ok |-> FALSE, version |-> VersionNew(Zero, Zero, Zero)]
      ma == NumericIdentifier(text, 1)
      dot1 == ma.ok /\ ma.next <= Len(text) /\ text[ma.next] = "."
      mi == IF dot1 THEN NumericIdentifier(text, ma.next + 1) ELSE [ok |-> FALSE]
      dot2 == mi.ok /\ mi.next <= Len(text) /\ text[mi.next] = "."
      pa == IF dot2 THEN NumericIdentifier(text, mi.next + 1) ELSE [ok |-> FALSE]
  IN  IF pa.ok THEN ParseSuffix(text, pa.next, ma.val, mi.val, pa.val) ELSE Bad

---------------------------------------------------------------------------
(* Builder::calculate_version, previous_version, build *)

TagChars == Letters \cup {"-", "."}

\* Regex ([A-Za-z\-\.]+)(?:([\d]*)) .captures(label): the leftmost match
PrereleaseCaptures(label) ==
  LET i == FirstIn(label, TagChars)
      n == IF i = 0 THEN 0 ELSE RunLen(label, i, TagChars)
      m == IF i = 0 \/ i + n > Len(label) THEN 0 ELSE RunLen(label, i + n, Digits)
  IN  IF i = 0 THEN [matched |-> FALSE, text |-> <<>>, digits |-> <<>>]
      ELSE [matched |-> TRUE,
            text |-> SubSeq(label, i, i + n - 1),
            digits |-> SubSeq(label, i + n, i + n + m - 1)]

\* .parse::<i32>().unwrap_or(0) of a digit run
ParseI32OrZero(digits) ==
  IF digits = <<>> THEN Zero
  ELSE IF DecLeq(StripZeros(digits), I32_MAX) THEN StripZeros(digits)
  ELSE Zero

\* x + 1 on u64 without overflow checks (wrapping)
AddOneU64(x) == IF x = U64_MAX THEN Zero ELSE DecInc(x)

\* format!("{}", number + 1) on i32 without overflow checks (wrapping)
AddOneI32Text(number) == IF number = I32_MAX THEN I32_MIN_TEXT ELSE DecInc(number)

\* the same reproducing the previous version when no flag is set
BumpComponents_keep(s) ==
  IF s.major
  THEN [major |-> AddOneU64(s.version.major), minor |-> Zero, patch |-> Zero]
  ELSE IF s.minor
  THEN [major |-> s.version.major, minor |-> AddOneU64(s.version.minor), patch |-> Zero]
  ELSE IF s.patch
  THEN [major |-> s.version.major, minor |-> s.version.minor,
        patch |-> AddOneU64(s.version.patch)]
  ELSE [major |-> s.version.major, minor |-> s.version.minor, patch |-> s.version.patch]

\* the same testing the minor flag before the major flag
BumpComponents_minor_first(s) ==
  IF s.minor
  THEN [major |-> s.version.major, minor |-> AddOneU64(s.version.minor), patch |-> Zero]
  ELSE IF s.major
  THEN [major |-> AddOneU64(s.version.major), minor |-> Zero, patch |-> Zero]
  ELSE IF s.patch
  THEN [major |-> s.version.major, minor |-> s.version.minor,
        patch |-> AddOneU64(s.version.patch)]
  ELSE [major |-> Zero, minor |-> Zero, patch |-> Zero]

\* the same with three independent ifs instead of the else-if chain: the
\* last flag tested overwrites what the earlier ones computed
BumpComponents_no_else(s) ==
  IF s.patch
  THEN [major |-> s.version.major, minor |-> s.version.minor,
        patch |-> AddOneU64(s.version.patch)]
  ELSE IF s.minor
  THEN [major |-> s.version.major, minor |-> AddOneU64(s.version.minor), patch |-> Zero]
  ELSE IF s.major
  THEN [major |-> AddOneU64(s.version.major), minor |-> Zero, patch |-> Zero]
  ELSE [major |-> Zero, minor |-> Zero, patch |-> Zero]

\* The numeric components of the new version: lines 105-115
BumpComponents(s) ==
  IF s.major
  THEN [major |-> AddOneU64(s.version.major), minor |-> Zero, patch |-> Zero]
  ELSE IF s.minor
  THEN [major |-> s.version.major, minor |-> AddOneU64(s.version.minor), patch |-> Zero]
  ELSE IF s.patch
  THEN [major |-> s.version.major, minor |-> s.version.minor,
        patch |-> AddOneU64(s.version.patch)]
  ELSE [major |-> Zero, minor |-> Zero, patch |-> Zero]

\* whether the u64 addition of lines 107/110/114 overflows
BumpOverflows(s) ==
  IF s.major THEN s.version.major = U64_MAX
  ELSE IF s.minor THEN s.version.minor = U64_MAX
  ELSE IF s.patch THEN s.version.patch = U64_MAX
  ELSE FALSE

\* the same keeping an undecomposable label instead of resetting it
NextPrereleaseText_keep(s) ==
  LET caps == PrereleaseCaptures(s.version.pre)
  IN  IF caps.matched
      THEN caps.text \o AddOneI32Text(ParseI32OrZero(caps.digits))
      ELSE s.version.pre

\* The text handed to Prerelease::new: lines 116-137
NextPrereleaseText(s) ==
  LET caps == PrereleaseCaptures(s.version.pre)
  IN  IF caps.matched
      THEN caps.text \o AddOneI32Text(ParseI32OrZero(caps.digits))
      ELSE <<"p", "r", "e", ".", "0">>

\* whether number += 1 of line 127 overflows
CounterOverflows(s) ==
  LET caps == PrereleaseCaptures(s.version.pre)
  IN  caps.matched /\ ParseI32OrZero(caps.digits) = I32_MAX

\* the same carrying the previous label and build metadata over when the
\* prerelease flag is not set
calculate_version_carry(s, overflow_checks) ==
  LET c == BumpComponents(s)
      pre == IF s.prerelase THEN NextPrereleaseText(s) ELSE s.version.pre
      version == [major |-> c.major, minor |-> c.minor, patch |-> c.patch,
                  pre |-> pre, build |-> s.version.build]
  IN  IF overflow_checks /\ BumpOverflows(s)
      THEN [outcome |-> "panic_add_u64", semantic |-> s]
      ELSE IF overflow_checks /\ s.prerelase /\ CounterOverflows(s)
      THEN [outcome |-> "panic_add_i32", semantic |-> s]
      ELSE IF s.prerelase /\ ~PrereleaseNewOk(pre)
      THEN [outcome |-> "panic_prerelease_unwrap", semantic |-> s]
      ELSE [outcome |-> "ok", semantic |-> [s EXCEPT !.version = version]]

\* calculate_version on builder state s; overflow_checks is the build
\* profile's setting (on: an overflowing + panics, off: it wraps).
\* [outcome, semantic]
calculate_version(s, overflow_checks) ==
  LET c == BumpComponents(s)
      pre == IF s.prerelase THEN NextPrereleaseText(s) ELSE <<>>
      version == [major |-> c.major, minor |-> c.minor, patch |-> c.patch,
                  pre |-> pre, build |-> <<>>]
  IN  IF overflow_checks /\ BumpOverflows(s)
      THEN [outcome |-> "panic_add_u64", semantic |-> s]
      ELSE IF overflow_checks /\ s.prerelase /\ CounterOverflows(s)
      THEN [outcome |-> "panic_add_i32", semantic |-> s]
      ELSE IF s.prerelase /\ ~PrereleaseNewOk(pre)
      THEN [outcome |-> "panic_prerelease_unwrap", semantic |-> s]
      ELSE [outcome |-> "ok", semantic |-> [s EXCEPT !.version = version]]

\* previous_version(text): [outcome, semantic]
previous_version(s, text) ==
  LET parsed == VersionParse(text)
  IN  IF parsed.ok
      THEN [outcome |-> "ok", semantic |-> [s EXCEPT !.version = parsed.version]]
      ELSE [outcome |-> "err", semantic |-> s]

build(s) == s

CalculateVersion ==
  /\ pc = "api"
  /\ fuel > 0
  /\ \E overflow_checks \in BOOLEAN :
       LET r == calculate_version(semantic, overflow_checks)
       IN  /\ semantic' = r.semantic
           /\ last' = Call("calculate_version", <<>>, r.outcome)
           /\ pc' = IF r.outcome = "ok" THEN "api" ELSE "panicked"
  /\ fuel' = fuel - 1
  /\ UNCHANGED <<env, revwalk, visited, result>>

PreviousVersion(text) ==
  /\ pc = "api"
  /\ fuel > 0
  /\ LET r == previous_version(semantic, text)
     IN  /\ semantic' = r.semantic
         /\ last' = Call("previous_version", text, r.outcome)
  /\ fuel' = fuel - 1
  /\ UNCHANGED <<pc, env, revwalk, visited, result>>

Build ==
  /\ pc = "api"
  /\ fuel > 0
  /\ semantic' = build(semantic)
  /\ last' = Call("build", <<>>, "ok")
  /\ fuel' = fuel - 1
  /\ UNCHANGED <<pc, env, revwalk, visited, result>>

---------------------------------------------------------------------------
(* The calculator on every builder state of a bounded set.  The previous *)
(* versions are versions Version::parse can return.                       *)

Text_pre == <<"p", "r", "e">>
Text_alpha == <<"a", "l", "p", "h", "a">>

LabelChars == {"a", ".", "0", "7"}

ExampleLabels ==
  { Text_pre \o <<".", "2">>, Text_alpha \o <<".", "2">>, Text_alpha \o <<"2">>,
    Text_alpha \o <<"-", "o", "r", "-", "w", "h", "a", "t", "e", "v", "e", "r", "2">>,
    Text_pre, Text_pre \o <<".", "0">>, Text_pre \o <<".", "9">>,
    <<"a", "0", "0", "7">>, <<"1", "2", "3">>, <<"-">>, <<"0", "-", "r", "c", "1">>,
    <<"2">> \o Text_pre \o <<"2">>,
    Text_alpha \o <<".", "1", ".", "b", "e", "t", "a", ".", "2">>,
    Text_pre \o <<".">> \o I32_MAX,
    Text_pre \o <<".">> \o SubSeq(I32_MAX, 1, 9) \o <<"6">>,
    Text_pre \o <<".">> \o SubSeq(I32_MAX, 1, 9) \o <<"8">>,
    Text_pre \o <<".", "9", "9", "9", "9", "9", "9", "9", "9", "9", "9">> }

PrevLabels ==
  {l \in SeqsUpTo(LabelChars, MaxLabel) \cup ExampleLabels : PrereleaseNewOk(l)}

U64_MAX_LESS_1 == SubSeq(U64_MAX, 1, 19) \o <<"4">>

PrevTriples ==
  {<<a, b, c>> : a \in {Zero, U64_MAX}, b \in {Zero, U64_MAX}, c \in {Zero, U64_MAX}}
  \cup {<<Dec(1), Dec(2), Dec(5)>>, <<Dec(1), Dec(2), Dec(0)>>, <<Dec(1), Dec(0), Dec(0)>>,
        <<U64_MAX_LESS_1, Dec(19), Dec(199)>>}

\* build metadata a parsed previous version may carry
Build_b01 == <<"b", ".", "0", "1">>

PrevVersions ==
  {[major |-> t[1], minor |-> t[2], patch |-> t[3], pre |-> l, build |-> <<>>] :
     t \in PrevTriples, l \in PrevLabels}
  \cup
  {[major |-> Dec(1), minor |-> Dec(2), patch |-> Dec(3), pre |-> l, build |-> Build_b01] :
     l \in PrevLabels}

InitCalc ==
  /\ pc = "api"
  /\ fuel = MaxCalc
  /\ semantic \in [major : BOOLEAN, minor : BOOLEAN, patch : BOOLEAN,
                   prerelase : BOOLEAN, version : PrevVersions]
  /\ last = NoCall
  /\ RunIdle

NextCalc == CalculateVersion

SpecCalc == InitCalc /\ [][NextCalc]_vars

---------------------------------------------------------------------------
(* Direct use of the builder, as the unit tests of semantic.rs do: any    *)
(* sequence of at most MaxOps calls on one builder.                        *)

None == <<"None">>

Msg_feat_bang == <<"f", "e", "a", "t", "!", ":", " ", "x">>
Msg_feat == <<"f", "e", "a", "t", ":", " ", "x">>
Msg_fix == <<"f", "i", "x", ":", " ", "x">>
Msg_chore == <<"c", "h", "o", "r", "e", ":", " ", "x">>

Name_main == <<"m", "a", "i", "n">>
Name_develop == <<"d", "e", "v", "e", "l", "o", "p">>

Text_1_2_3 == <<"1", ".", "2", ".", "3">>
Text_v1_2_3 == <<"v", "1", ".", "2", ".", "3">>
Text_1_0_0_pre_2 == <<"1", ".", "0", ".", "0", "-", "p", "r", "e", ".", "2">>
Text_1_2 == <<"1", ".", "2">>

ApiMessages == {Msg_feat_bang, Msg_feat, Msg_fix, Msg_chore}

ApiBranches == {Name_main, Name_develop, <<>>}

ApiVersionTexts ==
  {Text_1_2_3, Text_v1_2_3, Text_1_0_0_pre_2, Text_1_2, <<"0">> \o Text_1_2_3,
   Text_1_2_3 \o <<"-">>}

---------------------------------------------------------------------------
(* The analyser: src/src/history.rs, called as src/src/bin/semver_cli.rs  *)
(* calls it.                                                               *)

\* Option<&str> message_raw() of the commits of a history
CommitMessages == {Msg_feat_bang, Msg_feat, Msg_fix, Msg_chore, None}

Histories == SeqsUpTo(CommitMessages, MaxCommits)

Text_max_0_0 == U64_MAX \o <<".", "0", ".", "0">>

Hints == {None, Text_1_2_3, Text_v1_2_3, Text_1_0_0_pre_2, Text_max_0_0}

\* repository.head()?.shorthand()
HeadNames == {Name_main, Name_develop, None}

NoPoint == [since |-> FALSE, version_identifier |-> None]

\* what the caller passes: a CommitAnalyserPoint, or a tag name for
\* TagAnalyserPoint::new; history is the traversal from the starting point
Invocations ==
  [kind : {"commit"}, tag : {None}, history : Histories,
   point : [since : BOOLEAN, version_identifier : Hints]]
  \cup
  [kind : {"tag"}, tag : Hints, history : Histories, point : {NoPoint}]

\* reference.is_tag(): the reference was looked up under refs/tags/
is_tag(reference_name) ==
  StartsWith(reference_name, <<"r", "e", "f", "s", "/", "t", "a", "g", "s", "/">>)

\* TagAnalyserPoint::new(tag_name, repository): [result, point]; found and
\* peeled say whether the repository resolves the reference and its commit
TagAnalyserPoint_new(tag_name, found, peeled) ==
  IF tag_name = None
  THEN [result |-> "Ok", point |-> [since |-> FALSE, version_identifier |-> None]]
  ELSE IF ~found THEN [result |-> "panic:find_reference", point |-> NoPoint]
  ELSE IF ~is_tag(<<"r", "e", "f", "s", "/", "t", "a", "g", "s", "/">> \o tag_name)
  THEN [result |-> "Err(SemanticError)", point |-> NoPoint]
  ELSE IF ~peeled THEN [result |-> "panic:peel_to_commit", point |-> NoPoint]
  ELSE [result |-> "Ok", point |-> [since |-> TRUE, version_identifier |-> tag_name]]

\* Analyser::get_repository(path): the result, given what the repository
\* layer answers
get_repository(opened, worktree, worktree_opened, from_worktree_opened) ==
  IF ~opened THEN "Err(RepositoryError)"
  ELSE IF ~worktree THEN "Ok"
  ELSE IF ~worktree_opened THEN "Err(GitError)"
  ELSE IF ~from_worktree_opened THEN "panic:open_from_worktree"
  ELSE "Ok"

\* the same starting the builder afresh on a commit without a message
analyze_commit_reset(s, message_raw) ==
  IF message_raw # None
  THEN message_contains_semantic_information(s, message_raw)
  ELSE SemanticDefault

\* Builder::analyze_commit
analyze_commit(s, message_raw) ==
  IF message_raw # None
  THEN message_contains_semantic_information(s, message_raw)
  ELSE s

\* analyze_commit called on the builder directly
AnalyzeCommit(message_raw) ==
  /\ pc = "api"
  /\ fuel > 0
  /\ semantic' = analyze_commit(semantic, message_raw)
  /\ last' = Call("analyze_commit", message_raw, "ok")
  /\ fuel' = fuel - 1
  /\ UNCHANGED <<pc, env, revwalk, visited, result>>

\* the for loop of run goes on to the next commit
WalkGoesOn_no_break(s, rest) == rest # <<>>

WalkGoesOn(s, rest) == ~has_major_release(s) /\ rest # <<>>

RECURSIVE Walk(_, _)
\* the for loop of run, lines 147-156, over a traversal every commit of
\* which the repository finds: the builder after the loop
Walk(s, commits) ==
  IF commits = <<>> THEN s
  ELSE LET t == analyze_commit(s, Head(commits))
       IN  IF WalkGoesOn(t, Tail(commits)) THEN Walk(t, Tail(commits)) ELSE t

Fail(r) == /\ result' = r /\ pc' = "done"

\* main of semver_cli, or a test, chooses the repository and the point
Invoke ==
  /\ pc = "start"
  /\ \E inv \in Invocations :
       /\ env' = inv
       /\ pc' = IF inv.kind = "tag" THEN "cli_get_repository" ELSE "canonicalize"
  /\ UNCHANGED <<fuel, semantic, last, revwalk, visited, result>>

GetRepository ==
  /\ pc \in {"cli_get_repository", "get_repository"}
  /\ \E opened, worktree, worktree_opened, from_worktree_opened \in BOOLEAN :
       LET r == get_repository(opened, worktree, worktree_opened, from_worktree_opened)
       IN  IF r = "Ok"
           THEN /\ pc' = IF pc = "cli_get_repository" THEN "tag_new" ELSE "revwalk"
                /\ UNCHANGED result
           ELSE Fail(r)
  /\ UNCHANGED <<fuel, semantic, last, env, revwalk, visited>>

TagAnalyserPointNew ==
  /\ pc = "tag_new"
  /\ \E found, peeled \in BOOLEAN :
       LET r == TagAnalyserPoint_new(env.tag, found, peeled)
       IN  IF r.result = "Ok"
           THEN /\ env' = [env EXCEPT !.point = r.point]
                /\ pc' = "canonicalize"
                /\ UNCHANGED result
           ELSE /\ Fail(r.result)
                /\ UNCHANGED env
  /\ UNCHANGED <<fuel, semantic, last, revwalk, visited>>

\* line 117
RunCanonicalize ==
  /\ pc = "canonicalize"
  /\ \E ok \in BOOLEAN :
       IF ok THEN pc' = "get_repository" /\ UNCHANGED result ELSE Fail("Err(Error)")
  /\ UNCHANGED <<fuel, semantic, last, env, revwalk, visited>>

\* line 123
RunRevwalk ==
  /\ pc = "revwalk"
  /\ \E ok \in BOOLEAN :
       IF ok THEN pc' = "push" /\ UNCHANGED result ELSE Fail("Err(GitError)")
  /\ UNCHANGED <<fuel, semantic, last, env, revwalk, visited>>

\* lines 126-133: push the starting point, then Semantic::builder()
RunPush ==
  /\ pc = "push"
  /\ \E ok \in BOOLEAN :
       IF ok
       THEN /\ revwalk' = env.history
            /\ semantic' = SemanticDefault
            /\ pc' = "previous_version_1"
            /\ UNCHANGED result
       ELSE /\ Fail("Err(GitError)")
            /\ UNCHANGED <<revwalk, semantic>>
  /\ UNCHANGED <<fuel, last, env, visited>>

\* lines 135-137 and 141-145: if let Some(..) { builder.previous_version(..)? }
RunPreviousVersion ==
  /\ pc \in {"previous_version_1", "previous_version_2"}
  /\ LET hint == env.point.version_identifier
         next == IF pc = "previous_version_1" THEN "is_prerelease" ELSE "walk"
     IN  IF hint = None
         THEN /\ pc' = next
              /\ UNCHANGED <<semantic, last, result>>
         ELSE LET r == previous_version(semantic, hint)
              IN  /\ semantic' = r.semantic
                  /\ last' = Call("previous_version", hint, r.outcome)
                  /\ IF r.outcome = "ok"
                     THEN pc' = next /\ UNCHANGED result
                     ELSE Fail("Err(SemVerError)")
  /\ UNCHANGED <<fuel, env, revwalk, visited>>

\* line 139
RunIsPrerelease ==
  /\ pc = "is_prerelease"
  /\ \E ok \in BOOLEAN, shorthand \in HeadNames :
       IF ok
       THEN LET branchname == IF shorthand = None THEN <<>> ELSE shorthand
            IN  /\ semantic' = is_prerelease(semantic, branchname)
                /\ last' = Call("is_prerelease", branchname, "ok")
                /\ pc' = "previous_version_2"
                /\ UNCHANGED result
       ELSE /\ Fail("Err(GitError)")
            /\ UNCHANGED <<semantic, last>>
  /\ UNCHANGED <<fuel, env, revwalk, visited>>

\* lines 147-156: one iteration of the loop
RunWalk ==
  /\ pc = "walk"
  /\ revwalk # <<>>
  /\ \E id_ok, found \in BOOLEAN :
       IF id_ok /\ found
       THEN LET s == analyze_commit(semantic, Head(revwalk))
            IN  /\ semantic' = s
                /\ last' = Call("analyze_commit", Head(revwalk), "ok")
                /\ visited' = Append(visited, Head(revwalk))
                /\ revwalk' = Tail(revwalk)
                /\ pc' = IF WalkGoesOn(s, Tail(revwalk)) THEN "walk" ELSE "calculate"
                /\ UNCHANGED result
       ELSE /\ Fail("Err(GitError)")
            /\ UNCHANGED <<semantic, last, visited, revwalk>>
  /\ UNCHANGED <<fuel, env>>

\* the loop over a revwalk that yields nothing
RunWalkEmpty ==
  /\ pc = "walk"
  /\ revwalk = <<>>
  /\ pc' = "calculate"
  /\ UNCHANGED <<fuel, semantic, last, env, revwalk, visited, result>>

\* lines 158-159
RunCalculate ==
  /\ pc = "calculate"
  /\ \E overflow_checks \in BOOLEAN :
       LET r == calculate_version(semantic, overflow_checks)
       IN  /\ semantic' = build(r.semantic)
           /\ last' = Call("calculate_version", <<>>, r.outcome)
           /\ result' = IF r.outcome = "ok" THEN "Ok" ELSE "panic:calculate_version"
  /\ pc' = "done"
  /\ UNCHANGED <<fuel, env, revwalk, visited>>

Init ==
  /\ pc \in {"api", "start"}
  /\ fuel = MaxOps
  /\ semantic = SemanticDefault
  /\ last = NoCall
  /\ RunIdle

Next ==
  \/ \E message \in ApiMessages : MessageContainsSemanticInformation(message)
  \/ \E message_raw \in CommitMessages : AnalyzeCommit(message_raw)
  \/ \E branchname \in ApiBranches : IsPrerelease(branchname)
  \/ \E text \in ApiVersionTexts : PreviousVersion(text)
  \/ CalculateVersion
  \/ Build
  \/ Invoke
  \/ GetRepository
  \/ TagAnalyserPointNew
  \/ RunCanonicalize
  \/ RunRevwalk
  \/ RunPush
  \/ RunPreviousVersion
  \/ RunIsPrerelease
  \/ RunWalk
  \/ RunWalkEmpty
  \/ RunCalculate

Spec == Init /\ [][Next]_vars

---------------------------------------------------------------------------
(* Properties. *)

Classified == last.op = "message_contains_semantic_information"

Calculated == last.op = "calculate_version"

CalcReturned == Calculated /\ last.outcome = "ok"

Flags(s) == <<s.major, s.minor, s.patch>>

Components(v) == <<v.major, v.minor, v.patch>>

\* the patterns of the classifier as the specification words them
HasBangColon(m) == \E i \in 1..(Len(m) - 1) : SubSeq(m, i, i + 1) = <<"!", ":">>

BeginsThenColon(m, word) ==
  \E j \in 1..Len(m) :
    /\ j > Len(word)
    /\ SubSeq(m, 1, Len(word)) = word
    /\ m[j] = ":"
    /\ ~\E k \in (Len(word) + 1)..(j - 1) : m[k] = "\n"

\* C1: one message classified on a fresh builder sets exactly one flag by
\* first match in the order major, minor, patch: a message containing "!:"
\* sets only major, also when it matches the feat/fix patterns; a message
\* matching ^feat.*: without "!:" sets only minor; a message matching
\* ^fix.*: without "!:" sets only patch.
C1_FirstMatchWins ==
  (Classified /\ last.pre = SemanticDefault) =>
    LET m == last.arg
    IN  /\ HasBangColon(m) => Flags(semantic) = <<TRUE, FALSE, FALSE>>
        /\ (BeginsThenColon(m, Word_feat) /\ ~HasBangColon(m))
             => Flags(semantic) = <<FALSE, TRUE, FALSE>>
        /\ (BeginsThenColon(m, Word_fix) /\ ~HasBangColon(m))
             => Flags(semantic) = <<FALSE, FALSE, TRUE>>
        /\ semantic.prerelase = FALSE
        /\ semantic.version = SemanticDefault.version

\* "feat!:" matches the major and the minor pattern and is classified major
C1_Witness ==
  /\ Classified
  /\ last.pre = SemanticDefault
  /\ last.arg = <<"f", "e", "a", "t", "!", ":">>
  /\ Flags(semantic) = <<TRUE, FALSE, FALSE>>

\* C2: calculate_version applies a strictly hierarchical bump to the
\* previous version: major set gives (prev.major+1, 0, 0) whatever minor and
\* patch are; else minor set gives (prev.major, prev.minor+1, 0) whatever
\* patch is; else patch set gives (prev.major, prev.minor, prev.patch+1).
C2_HierarchicalBump ==
  CalcReturned =>
    LET p == last.pre
        v == p.version
    IN  /\ p.major => Components(semantic.version) = <<DecInc(v.major), Zero, Zero>>
        /\ (~p.major /\ p.minor)
             => Components(semantic.version) = <<v.major, DecInc(v.minor), Zero>>
        /\ (~p.major /\ ~p.minor /\ p.patch)
             => Components(semantic.version) = <<v.major, v.minor, DecInc(v.patch)>>

\* C3: with none of the three flags set calculate_version emits 0.0.0
\* whatever the previous version was.
C3_NoFlagCollapsesToZero ==
  (CalcReturned /\ Flags(last.pre) = <<FALSE, FALSE, FALSE>>) =>
    Components(semantic.version) = <<Zero, Zero, Zero>>

\* previous version 1.2.5 with no flag set gives 0.0.0
C3_Witness ==
  /\ CalcReturned
  /\ Flags(last.pre) = <<FALSE, FALSE, FALSE>>
  /\ Components(last.pre.version) = <<Dec(1), Dec(2), Dec(5)>>
  /\ Components(semantic.version) = <<Zero, Zero, Zero>>

PrereleaseChecked == last.op = "is_prerelease"

HasWord(name, word) ==
  \E i \in 1..Len(name) :
    i + Len(word) - 1 <= Len(name) /\ SubSeq(name, i, i + Len(word) - 1) = word

\* C5: is_prerelease on a fresh builder yields prerelease = true for every
\* name containing neither "main" nor "master" (the empty name included) and
\* prerelease = false for every name containing "main" or "master".
C5_PrereleasePolicy ==
  (PrereleaseChecked /\ last.pre = SemanticDefault) =>
    LET name == last.arg
        release == \/ HasWord(name, <<"m", "a", "i", "n">>)
                   \/ HasWord(name, <<"m", "a", "s", "t", "e", "r">>)
    IN  /\ semantic.prerelase = ~release
        /\ Flags(semantic) = <<FALSE, FALSE, FALSE>>
        /\ semantic.version = SemanticDefault.version

\* refs/heads/main is a release branch
C5_Witness ==
  /\ PrereleaseChecked
  /\ last.pre = SemanticDefault
  /\ last.arg = <<"r", "e", "f", "s", "/", "h", "e", "a", "d", "s", "/", "m", "a", "i", "n">>
  /\ semantic.prerelase = FALSE

\* the (tag, counter) pair of the previous label
Decomposes(s) == PrereleaseCaptures(s.version.pre).matched

\* C6: with the prerelease flag set and a previous label that decomposes
\* into (tag, counter), calculate_version outputs tag followed by counter+1
\* with no separator, an absent or unparsable counter counting as 0; for
\* every counter n the new counter is exactly n+1.
C6_CounterIncremented ==
  (Calculated /\ last.pre.prerelase /\ Decomposes(last.pre)) =>
    LET caps == PrereleaseCaptures(last.pre.version.pre)
    IN  /\ last.outcome \notin {"panic_add_i32", "panic_prerelease_unwrap"}
        /\ last.outcome = "ok" =>
             semantic.version.pre = caps.text \o DecInc(ParseI32OrZero(caps.digits))

\* C7: with the prerelease flag set and a previous label that is empty or
\* does not decompose into (tag, counter), calculate_version outputs exactly
\* the label pre.0, and the label never makes the call fail.
C7_UnparsableLabelResets ==
  (Calculated /\ last.pre.prerelase /\ ~Decomposes(last.pre)) =>
    /\ last.outcome \notin {"panic_add_i32", "panic_prerelease_unwrap"}
    /\ last.outcome = "ok" => semantic.version.pre = <<"p", "r", "e", ".", "0">>

\* 1.0.0 with the major and prerelease flags gives 2.0.0-pre.0
C7_Witness ==
  /\ CalcReturned
  /\ last.pre.prerelase /\ last.pre.major
  /\ last.pre.version = VersionNew(Dec(1), Dec(0), Dec(0))
  /\ Components(semantic.version) = <<Dec(2), Zero, Zero>>
  /\ semantic.version.pre = <<"p", "r", "e", ".", "0">>

\* C8: without the prerelease flag the version produced has an empty
\* prerelease label, also when the previous version had one; the build
\* metadata of the version produced is empty in every case.
C8_NoLabelNoBuild ==
  CalcReturned =>
    /\ ~last.pre.prerelase => semantic.version.pre = <<>>
    /\ semantic.version.build = <<>>

\* 1.2.3-pre.2+b.01 without the prerelease flag loses label and metadata
C8_Witness ==
  /\ CalcReturned
  /\ ~last.pre.prerelase
  /\ last.pre.version.pre = <<"p", "r", "e", ".", "2">>
  /\ last.pre.version.build = Build_b01
  /\ semantic.version.pre = <<>>
  /\ semantic.version.build = <<>>

\* the categories of a commit as the specification words them
IsMajorCommit(m) == m # None /\ HasBangColon(m)

IsMinorCommit(m) == m # None /\ ~HasBangColon(m) /\ BeginsThenColon(m, Word_feat)

IsPatchCommit(m) ==
  /\ m # None
  /\ ~HasBangColon(m)
  /\ ~BeginsThenColon(m, Word_feat)
  /\ BeginsThenColon(m, Word_fix)

Running == env # NoEnv

Walked == pc \in {"walk", "calculate"} \/ result \in {"Ok", "panic:calculate_version"}

\* C4: run classifies the commits in traversal order, each once, and ORs
\* the results into the flags; no commit after the first major one is
\* visited; when run succeeds it has stopped at the first major commit or
\* classified the whole traversal.
C4_WalkStopsAtFirstMajor ==
  Running =>
    /\ semantic.major = \E i \in 1..Len(visited) : IsMajorCommit(visited[i])
    /\ semantic.minor = \E i \in 1..Len(visited) : IsMinorCommit(visited[i])
    /\ semantic.patch = \E i \in 1..Len(visited) : IsPatchCommit(visited[i])
    /\ \A i \in 1..(Len(visited) - 1) : ~IsMajorCommit(visited[i])
    /\ Walked => visited \o revwalk = env.history
    /\ result = "Ok" =>
         \/ revwalk = <<>>
         \/ visited # <<>> /\ IsMajorCommit(visited[Len(visited)])

\* fix, feat!, feat: the walk stops after the second commit
C4_Witness ==
  /\ result = "Ok"
  /\ env.history = <<Msg_fix, Msg_feat_bang, Msg_feat>>
  /\ visited = <<Msg_fix, Msg_feat_bang>>
  /\ revwalk = <<Msg_feat>>
  /\ Flags(semantic) = <<TRUE, FALSE, TRUE>>

\* MAJOR.MINOR.PATCH[-PRERELEASE][+BUILD] of semantic versioning
IsSemVer(text) ==
  LET plus == FirstIn(text, {"+"})
      main == IF plus = 0 THEN text ELSE SubSeq(text, 1, plus - 1)
      meta == IF plus = 0 THEN <<>> ELSE SubSeq(text, plus + 1, Len(text))
      dash == FirstIn(main, {"-"})
      core == IF dash = 0 THEN main ELSE SubSeq(main, 1, dash - 1)
      label == IF dash = 0 THEN <<>> ELSE SubSeq(main, dash + 1, Len(main))
      nums == SplitDots(core)
      Ident(seg) == seg # <<>> /\ \A k \in 1..Len(seg) : seg[k] \in IdentChars
      NoLeadingZero(seg) == (IsNumeric(seg) /\ Len(seg) > 1) => seg[1] # "0"
  IN  /\ Len(nums) = 3
      /\ \A i \in 1..3 : IsNumeric(nums[i]) /\ NoLeadingZero(nums[i])
      /\ dash # 0 => \A i \in 1..Len(SplitDots(label)) :
                       Ident(SplitDots(label)[i]) /\ NoLeadingZero(SplitDots(label)[i])
      /\ plus # 0 => \A i \in 1..Len(SplitDots(meta)) : Ident(SplitDots(meta)[i])

\* the previous-version hint of the invocation
HintOf(e) == IF e.kind = "tag" THEN e.tag ELSE e.point.version_identifier

C10_AccessFailuresAreErrors ==
  (pc = "done" /\ result \notin {"Ok", "panic:calculate_version"}) =>
    result \in {"Err(Error)", "Err(RepositoryError)", "Err(GitError)",
                "Err(SemVerError)", "Err(SemanticError)"}

RepositoryAnswered == result \in {"Ok", "Err(SemVerError)", "panic:calculate_version"}

\* C12: run with the TagAnalyserPoint of a tag named v1.2.3 (the hint is the
\* tag name), over a history with a fix commit, a feat commit and no major
\* commit, succeeds and returns 1.3.0 with minor and patch set and major
\* unset.
C12_TagHintEndToEnd ==
  (/\ pc = "done"
   /\ env.kind = "tag" /\ env.tag = Text_v1_2_3
   /\ \E i \in 1..Len(env.history) : IsMinorCommit(env.history[i])
   /\ \E i \in 1..Len(env.history) : IsPatchCommit(env.history[i])
   /\ \A i \in 1..Len(env.history) : ~IsMajorCommit(env.history[i])
   /\ RepositoryAnswered)
  =>
    /\ result = "Ok"
    /\ Components(semantic.version) = <<Dec(1), Dec(3), Dec(0)>>
    /\ Flags(semantic) = <<FALSE, TRUE, TRUE>>

Word_chore == <<"c", "h", "o", "r", "e">>

Word_Merge == <<"M", "e", "r", "g", "e", " ">>

Begins(m, word) == Len(m) >= Len(word) /\ SubSeq(m, 1, Len(word)) = word

\* the header of a message: its text before the first line break
Header(m) ==
  LET n == FirstIn(m, {"\n"})
  IN  IF n = 0 THEN m ELSE SubSeq(m, 1, n - 1)

\* C13: a message matching none of the three patterns sets no flag; in
\* particular, unless they contain "!:", messages beginning with chore
\* (chore:, chore(feat):), messages whose header has no colon, the empty
\* message and every message beginning with "Merge " leave major, minor and
\* patch false, also when feat: or fix: comes later in the text.
C13_NoPatternNoFlag ==
  (Classified /\ last.pre = SemanticDefault) =>
    LET m == last.arg
        matches_none == /\ ~HasBangColon(m)
                        /\ ~BeginsThenColon(m, Word_feat)
                        /\ ~BeginsThenColon(m, Word_fix)
        listed == \/ Begins(m, Word_chore)
                  \/ Begins(m, Word_Merge)
                  \/ m = <<>>
                  \/ \A k \in 1..Len(Header(m)) : Header(m)[k] # ":"
    IN  /\ matches_none => semantic = SemanticDefault
        /\ (listed /\ ~HasBangColon(m)) => semantic = SemanticDefault

\* "Merge feat: x" sets nothing
C13_Witness ==
  /\ Classified
  /\ last.pre = SemanticDefault
  /\ last.arg = Word_Merge \o Word_feat \o <<":", " ", "x">>
  /\ Flags(semantic) = <<FALSE, FALSE, FALSE>>

\* C14: only the header line of a message matters: the flags a message sets
\* on a fresh builder are the flags its first line alone sets, whatever
\* follows the first line break.
C14_OnlyHeaderMatters ==
  (Classified /\ last.pre = SemanticDefault) =>
    semantic = message_contains_semantic_information(SemanticDefault, Header(last.arg))

RECURSIVE ClassifyAll(_, _)
\* the builder after a walk that classifies every commit, without the break
ClassifyAll(s, commits) ==
  IF commits = <<>> THEN s
  ELSE ClassifyAll(analyze_commit(s, Head(commits)), Tail(commits))

\* the builder of the run as it was when the walk began
BeforeWalk(s) == [s EXCEPT !.major = FALSE, !.minor = FALSE, !.patch = FALSE]

\* C15: stopping the walk at the first major commit does not change the
\* outcome: for every history, hint and branch the version run computes is
\* the version computed from the flags of a walk over the whole history.
C15_ShortCircuitSameVersion ==
  (Running /\ pc = "done" /\ Calculated) =>
    LET full == ClassifyAll(BeforeWalk(last.pre), env.history)
    IN  /\ \A overflow_checks \in BOOLEAN :
             LET whole == calculate_version(full, overflow_checks)
                 short == calculate_version(last.pre, overflow_checks)
             IN  /\ whole.outcome = short.outcome
                 /\ whole.semantic.version = short.semantic.version
        /\ \E overflow_checks \in BOOLEAN :
             LET whole == calculate_version(full, overflow_checks)
             IN  /\ (whole.outcome = "ok") = (result = "Ok")
                 /\ whole.semantic.version = semantic.version
        /\ full.prerelase = semantic.prerelase

\* feat!, feat, fix on 1.2.3: the walk stops after feat! and gives 2.0.0,
\* as the walk over the three commits (all three flags set) does
C15_Witness ==
  /\ result = "Ok"
  /\ env.history = <<Msg_feat_bang, Msg_feat, Msg_fix>>
  /\ visited = <<Msg_feat_bang>>
  /\ Flags(semantic) = <<TRUE, FALSE, FALSE>>
  /\ Flags(ClassifyAll(BeforeWalk(last.pre), env.history)) = <<TRUE, TRUE, TRUE>>
  /\ Components(last.pre.version) = <<Dec(1), Dec(2), Dec(3)>>
  /\ Components(semantic.version) = <<Dec(2), Zero, Zero>>

\* the length of the trailing digit run of a label
TrailingRun(label) ==
  IF \E k \in 1..Len(label) : label[k] \notin Digits
  THEN Len(label) - (CHOOSE k \in 1..Len(label) :
                       /\ label[k] \notin Digits
                       /\ \A j \in (k + 1)..Len(label) : label[j] \in Digits)
  ELSE Len(label)

\* everything before the trailing digit run
TagOf(label) == SubSeq(label, 1, Len(label) - TrailingRun(label))

\* the trailing digit run
CounterOf(label) == SubSeq(label, Len(label) - TrailingRun(label) + 1, Len(label))

\* C16: the split of the label takes the trailing digit run as the counter
\* and everything before it as the tag, for every label, also with leading
\* digits or several digit runs; the label produced keeps everything before
\* the last digit run and increments only that run.
C16_TrailingRunIsCounter ==
  (Calculated /\ last.pre.prerelase /\ TagOf(last.pre.version.pre) # <<>>) =>
    LET label == last.pre.version.pre
        caps == PrereleaseCaptures(label)
        counter == ParseI32OrZero(CounterOf(label))
    IN  /\ caps.text = TagOf(label)
        /\ caps.digits = CounterOf(label)
        /\ (last.outcome = "ok" /\ counter # I32_MAX)
             => semantic.version.pre = TagOf(label) \o DecInc(counter)

\* the counter of the split is written in the label as the number it is
\* (present, no leading zeros, within i32)
CounterIsWritten(caps) == caps.digits # <<>> /\ ParseI32OrZero(caps.digits) = caps.digits

\* C17: the (tag, counter) pair of the split round-trips: for every label
\* that decomposes into a tag and a written counter, tag followed by counter
\* with no separator is the label again (pre.2 -> ("pre.", 2) -> pre.2).
C17_SplitRoundTrips ==
  (Calculated /\ last.pre.prerelase /\ Decomposes(last.pre)) =>
    LET label == last.pre.version.pre
        caps == PrereleaseCaptures(label)
    IN  CounterIsWritten(caps) => caps.text \o ParseI32OrZero(caps.digits) = label

\* C18: the bump flags start all false and only ever change from false to
\* true: in every sequence of builder operations a major, minor or patch
\* flag that is true stays true (a later major erases no earlier minor or
\* patch), and calculate_version leaves the flags as it found them.
C18_FlagsMonotone ==
  /\ Flags(semantic) = <<FALSE, FALSE, FALSE>>
  /\ [][/\ semantic.major => semantic'.major
        /\ semantic.minor => semantic'.minor
        /\ semantic.patch => semantic'.patch
        /\ last'.op = "calculate_version" => Flags(semantic') = Flags(semantic)]_vars

\* feat, fix, then feat!: all three flags are set
C18_Witness ==
  /\ Classified
  /\ last.arg = Msg_feat_bang
  /\ Flags(last.pre) = <<FALSE, TRUE, TRUE>>
  /\ Flags(semantic) = <<TRUE, TRUE, TRUE>>

\* C19: the calculator only consumes the previous version: calculate_version
\* leaves the previous version of the builder unchanged, so a second call
\* with the same flags yields the version the first call yielded.
C19_SecondCallSameVersion ==
  [][(CalcReturned /\ CalcReturned' /\ Flags(semantic') = Flags(last.pre))
       => semantic'.version = semantic.version]_vars

\* a version semantic versioning accepts, as Version::parse reads it back
ValidVersion(v) ==
  /\ \A c \in {v.major, v.minor, v.patch} :
       IsNumeric(c) /\ StripZeros(c) = c /\ DecLeq(c, U64_MAX)
  /\ PrereleaseNewOk(v.pre)
  /\ v.build = <<>> \/ ValidIdentifiers(v.build, FALSE)

\* C20: calculate_version has no failure mode of its own: for every parsed
\* previous version (components up to the u64 maximum, counters at or above
\* the i32 maximum) and every combination of flags it completes with a
\* valid version, without arithmetic overflow and without panic.
C20_NoFailureMode ==
  Calculated =>
    /\ last.outcome = "ok"
    /\ ~BumpOverflows(last.pre)
    /\ last.pre.prerelase => ~CounterOverflows(last.pre)
    /\ ValidVersion(semantic.version)

\* the histories holding the same commits as h in any order
Reorderings(h) ==
  LET n == Len(h)
      perms == {p \in [1..n -> 1..n] : \A i, j \in 1..n : p[i] = p[j] => i = j}
  IN  {[i \in 1..n |-> h[p[i]]] : p \in perms}

\* C21: the version run returns does not depend on the order of the commits:
\* with the previous version and the branch fixed, run over any reordering
\* of the history gives the same version (or fails the same way), though the
\* minor and patch flags may differ.
C21_OrderIndependent ==
  (Running /\ pc = "done" /\ Calculated) =>
    /\ Walk(BeforeWalk(last.pre), env.history) = last.pre
    /\ \E overflow_checks \in BOOLEAN :
         LET here == calculate_version(last.pre, overflow_checks)
         IN  /\ (here.outcome = "ok") = (result = "Ok")
             /\ here.semantic.version = semantic.version
    /\ \A h \in Reorderings(env.history) :
         \A overflow_checks \in BOOLEAN :
           LET here == calculate_version(last.pre, overflow_checks)
               there == calculate_version(Walk(BeforeWalk(last.pre), h), overflow_checks)
           IN  /\ there.outcome = here.outcome
               /\ there.semantic.version = here.semantic.version

\* fix, feat!, feat on 1.2.3 gives 2.0.0 with major and patch set; feat!,
\* fix, feat stops at once with only major set and gives 2.0.0 as well
C21_Witness ==
  /\ result = "Ok"
  /\ env.history = <<Msg_fix, Msg_feat_bang, Msg_feat>>
  /\ Flags(semantic) = <<TRUE, FALSE, TRUE>>
  /\ Flags(Walk(BeforeWalk(last.pre), <<Msg_feat_bang, Msg_fix, Msg_feat>>))
       = <<TRUE, FALSE, FALSE>>
  /\ Components(last.pre.version) = <<Dec(1), Dec(2), Dec(3)>>
  /\ Components(semantic.version) = <<Dec(2), Zero, Zero>>

\* C22: repeated prerelease builds count up: with the prerelease flag set
\* the label calculate_version produces is non-empty and decomposes, and a
\* further round on that output keeps the tag and raises the counter by
\* exactly 1 (pre.0, pre.1, pre.2, ...), never falling back to pre.0.
C22_PrereleaseCountsUp ==
  [][(Calculated' /\ last'.pre.prerelase) =>
       /\ last'.outcome = "ok" =>
            /\ semantic'.version.pre # <<>>
            /\ Decomposes(semantic')
       /\ CalcReturned =>
            LET label == semantic.version.pre
            IN  /\ last'.outcome \notin {"panic_add_i32", "panic_prerelease_unwrap"}
                /\ last'.outcome = "ok" =>
                     semantic'.version.pre
                       = TagOf(label) \o DecInc(StripZeros(CounterOf(label)))]_vars

\* C23: the prerelease flag starts false and is only ever set: once set, a
\* later is_prerelease call with main or master leaves it true; no builder
\* operation but is_prerelease changes it; in run it changes at most once,
\* in the is_prerelease call made before the first commit is classified.
C23_PrereleaseFlagMonotone ==
  /\ ~semantic.prerelase
  /\ [][/\ semantic.prerelase => semantic'.prerelase
        /\ semantic'.prerelase # semantic.prerelase =>
             /\ last'.op = "is_prerelease"
             /\ Running => pc = "is_prerelease" /\ visited = <<>>
        /\ (Running /\ semantic.prerelase) => pc \notin {"push", "is_prerelease"}]_vars

\* develop, then main: the flag set by the first call survives the second
C23_Witness ==
  /\ PrereleaseChecked
  /\ last.arg = Name_main
  /\ last.pre.prerelase
  /\ semantic.prerelase

====
